---- MODULE Spec2Model ----
(***************************************************************************)
(* Model of the APsystems ECU scraper: EcuClient.get_ecu_data (the summary *)
(* extraction and the realtime row loop), the polling coordinator that     *)
(* publishes its result, and the config-flow validation that calls it.     *)
(*                                                                         *)
(* Text is a sequence of one-character strings, so that replace, strip,    *)
(* split, int() and float() are computed character by character.           *)
(***************************************************************************)
EXTENDS Integers, Sequences, FiniteSets, TLC

\* ------------------------------------------------------------------ bounds
\* number of <tr> rows of the realtime table
MaxRows == 3
\* number of non-identity summary fields that are not well-formed in a page
MaxBadFields == 2
\* number of polling ticks of the coordinator
MaxCycles == 2
\* number of config-flow submissions
MaxSubmits == 1

\* ------------------------------------------------------------ text helpers
Digits == {"0", "1", "2", "3", "4", "5", "6", "7", "8", "9"}

WS == {" ", "\n"}

DigitVal(c) ==
    CASE c = "0" -> 0 [] c = "1" -> 1 [] c = "2" -> 2 [] c = "3" -> 3
      [] c = "4" -> 4 [] c = "5" -> 5 [] c = "6" -> 6 [] c = "7" -> 7
      [] c = "8" -> 8 [] c = "9" -> 9

\* does pat occur in s at position i
StartsAt(s, pat, i) ==
    /\ i + Len(pat) - 1 <= Len(s)
    /\ \A k \in 1..Len(pat) : s[i + k - 1] = pat[k]

RECURSIVE ReplaceFrom(_, _, _)
ReplaceFrom(s, pat, i) ==
    IF i > Len(s) THEN <<>>
    ELSE IF StartsAt(s, pat, i) THEN ReplaceFrom(s, pat, i + Len(pat))
    ELSE <<s[i]>> \o ReplaceFrom(s, pat, i + 1)

\* str.replace(pat, ""): every non-overlapping occurrence, left to right
Replace(s, pat) == IF pat = <<>> THEN s ELSE ReplaceFrom(s, pat, 1)

RECURSIVE LStrip(_)
LStrip(s) == IF s # <<>> /\ Head(s) \in WS THEN LStrip(Tail(s)) ELSE s

RECURSIVE RStrip(_)
RStrip(s) ==
    IF s # <<>> /\ s[Len(s)] \in WS THEN RStrip(SubSeq(s, 1, Len(s) - 1)) ELSE s

\* str.strip()
Strip(s) == RStrip(LStrip(s))

RECURSIVE SplitFrom(_, _, _)
SplitFrom(s, sep, cur) ==
    IF s = <<>> THEN <<cur>>
    ELSE IF Head(s) = sep THEN <<cur>> \o SplitFrom(Tail(s), sep, <<>>)
    ELSE SplitFrom(Tail(s), sep, Append(cur, Head(s)))

\* str.split(sep) for a one-character separator
Split(s, sep) == SplitFrom(s, sep, <<>>)

AllDigits(s) == s # <<>> /\ \A k \in 1..Len(s) : s[k] \in Digits

RECURSIVE DigitsVal(_)
DigitsVal(s) ==
    IF s = <<>> THEN 0
    ELSE 10 * DigitsVal(SubSeq(s, 1, Len(s) - 1)) + DigitVal(s[Len(s)])

Unsigned(s) == IF s # <<>> /\ Head(s) \in {"-", "+"} THEN Tail(s) ELSE s

Sign(s) == IF s # <<>> /\ Head(s) = "-" THEN -1 ELSE 1

\* int(text) succeeds: optional blanks, optional sign, decimal digits
IntOk(s) == AllDigits(Unsigned(Strip(s)))

IntVal(s) == Sign(Strip(s)) * DigitsVal(Unsigned(Strip(s)))

\* a float is m / 10^e, kept without trailing fractional zeros
RECURSIVE NormFloat(_, _)
NormFloat(m, e) ==
    IF e > 0 /\ m % 10 = 0 THEN NormFloat(m \div 10, e - 1)
    ELSE [m |-> m, e |-> e]

\* float(text) succeeds: optional blanks, optional sign, digits with at most
\* one decimal point and at least one digit
FloatOk(s) ==
    LET u == Unsigned(Strip(s))
        p == Split(u, ".")
    IN  /\ Len(p) \in {1, 2}
        /\ \A k \in 1..Len(p) : p[k] = <<>> \/ AllDigits(p[k])
        /\ \E k \in 1..Len(p) : p[k] # <<>>

FloatVal(s) ==
    LET u == Unsigned(Strip(s))
        p == Split(u, ".")
        frac == IF Len(p) = 2 THEN p[2] ELSE <<>>
    IN  NormFloat(Sign(Strip(s)) * DigitsVal(p[1] \o frac), Len(frac))

FloatOfInt(n) == [m |-> n, e |-> 0]

\* --------------------------------------------------------------- the data
\* Python's None
None == [none |-> TRUE]

\* the int 0 the row loop stores when the timestamp does not parse
ZeroTime == [kind |-> "int", value |-> 0]

SolarModule(id, power, dcvoltage, gridvoltage) ==
    [id |-> id, power |-> power, dcvoltage |-> dcvoltage,
     gridvoltage |-> gridvoltage]

InverterData(id, freq, temp, reportingtime) ==
    [id |-> id, freq |-> freq, temperature |-> temp,
     reportingtime |-> reportingtime, solarmodules |-> <<>>]

add_solar_module(inverter, sm) ==
    [inverter EXCEPT !.solarmodules = Append(@, sm)]

\* the arguments are id, address, alias, lifetimeGeneration, power,
\* dailyEnergy, numberOfInverters, numberOfInvertersOnline, softwareVersion
EcuData(id, address, alias, gen, power, energy, n, nOnline, version) ==
    [id |-> id, alias |-> alias, address |-> address, power |-> power,
     lifetimeGeneration |-> gen, dailyEnergy |-> energy,
     inverters |-> <<>>, numberOfInverters |-> n,
     numberOfInvertersOnline |-> nOnline, softwareVersion |-> version]

add_inverter(ecu, inverter) == [ecu EXCEPT !.inverters = Append(@, inverter)]

\* next((x for x in xs if x._id == id), None)
FirstById(xs, id) ==
    IF \E k \in 1..Len(xs) : xs[k].id = id
    THEN xs[CHOOSE k \in 1..Len(xs) :
                /\ xs[k].id = id
                /\ \A j \in 1..(k - 1) : xs[j].id # id]
    ELSE None

get_solarmodule_by_id(inverter, id) == FirstById(inverter.solarmodules, id)

get_inverter_by_id(ecu, id) == FirstById(ecu.inverters, id)

\* ------------------------------------------------------- the summary page
\* A page is [kind, table, rows]: kind "error" is a request that raised,
\* table says whether soup.body.table exists.  A summary row is
\* [th, hasTd, td]: the label cell and the data cell that follows it.
Labels ==
    <<"ECU ID", "Lifetime generation", "Last System Power",
      "Generation of Current Day", "Number of Inverters",
      "Last Number of Inverters Online", "Current Software Version">>

LabelRows(doc, label) ==
    {k \in 1..Len(doc.rows) : doc.rows[k].th = label}

\* soup.body.table.find("th", text=label).find_next_sibling("td").text:
\* ok is FALSE where the chain raises on a missing table, label or cell
FindTd(doc, label) ==
    IF ~doc.table \/ LabelRows(doc, label) = {}
    THEN [ok |-> FALSE, text |-> <<>>]
    ELSE LET k == CHOOSE i \in LabelRows(doc, label) :
                      \A j \in LabelRows(doc, label) : i <= j
         IN  [ok |-> doc.rows[k].hasTd, text |-> doc.rows[k].td]

KWH == <<" ", "k", "W", "h">>

WATT == <<" ", "W">>

\* float(td.text.replace(unit, "")), 0 when anything raises
FloatField(doc, label, unit) ==
    LET f == FindTd(doc, label)
    IN  IF f.ok /\ FloatOk(Replace(f.text, unit))
        THEN FloatVal(Replace(f.text, unit)) ELSE FloatOfInt(0)

\* int(td.text.replace(unit, "")), 0 when anything raises
IntField(doc, label, unit) ==
    LET f == FindTd(doc, label)
    IN  IF f.ok /\ IntOk(Replace(f.text, unit))
        THEN IntVal(Replace(f.text, unit)) ELSE 0

\* str(td.text), "" when anything raises
StrField(doc, label) ==
    LET f == FindTd(doc, label) IN IF f.ok THEN f.text ELSE <<>>

\* a variant with one try around the six fields: the first one that fails
\* leaves the fields after it at their defaults too
ExtractSummaryOneTry(doc, address, alias) ==
    LET ok(k) ==
            /\ FindTd(doc, Labels[k]).ok
            /\ k \in {2, 4} => FloatOk(Replace(FindTd(doc, Labels[k]).text, KWH))
            /\ k = 3 => IntOk(Replace(FindTd(doc, Labels[k]).text, WATT))
            /\ k \in {5, 6} => IntOk(FindTd(doc, Labels[k]).text)
        upTo(k) == \A j \in 2..k : ok(j)
    IN  EcuData(FindTd(doc, "ECU ID").text, address, alias,
            IF upTo(2) THEN FloatField(doc, Labels[2], KWH) ELSE FloatOfInt(0),
            IF upTo(3) THEN IntField(doc, Labels[3], WATT) ELSE 0,
            IF upTo(4) THEN FloatField(doc, Labels[4], KWH) ELSE FloatOfInt(0),
            IF upTo(5) THEN IntField(doc, Labels[5], <<>>) ELSE 0,
            IF upTo(6) THEN IntField(doc, Labels[6], <<>>) ELSE 0,
            IF upTo(7) THEN StrField(doc, Labels[7]) ELSE <<>>)

\* the EcuData built from the summary page once the ECU ID was found
ExtractSummary(doc, address, alias) ==
    EcuData(FindTd(doc, "ECU ID").text, address, alias,
            FloatField(doc, "Lifetime generation", KWH),
            IntField(doc, "Last System Power", WATT),
            FloatField(doc, "Generation of Current Day", KWH),
            IntField(doc, "Number of Inverters", <<>>),
            IntField(doc, "Last Number of Inverters Online", <<>>),
            StrField(doc, "Current Software Version"))

\* ------------------------------------------------------ the realtime rows
\* A realtime row is the sequence of the texts of its <td> cells.
\* the characters of the mis-encoded degree sign the code strips
ACIRC == "A^"

DEG == "deg"

CELSIUS == <<ACIRC, DEG, "C">>

\* cells[i] of the code (0-based) exists
HasCell(cells, i) == i + 1 <= Len(cells)

\* int(cells[i].text.replace(unit, "").strip()), 0 when anything raises
IntCell(cells, i, unit) ==
    IF HasCell(cells, i) /\ IntOk(Strip(Replace(cells[i + 1], unit)))
    THEN IntVal(Strip(Replace(cells[i + 1], unit))) ELSE 0

\* float(cells[i].text.replace(unit, "").strip()), 0 when anything raises
FloatCell(cells, i, unit) ==
    IF HasCell(cells, i) /\ FloatOk(Strip(Replace(cells[i + 1], unit)))
    THEN FloatVal(Strip(Replace(cells[i + 1], unit))) ELSE FloatOfInt(0)

IsLeap(y) == (y % 4 = 0 /\ y % 100 # 0) \/ y % 400 = 0

DaysIn(y, m) ==
    IF m = 2 THEN (IF IsLeap(y) THEN 29 ELSE 28)
    ELSE IF m \in {4, 6, 9, 11} THEN 30 ELSE 31

\* a field of one or two digits
Digits12(s) == AllDigits(s) /\ Len(s) <= 2

\* datetime.strptime(text, "%Y-%m-%d %H:%M:%S") succeeds
TimeOk(s) ==
    LET p == Split(s, " ")
        d == Split(p[1], "-")
        t == Split(p[2], ":")
    IN  /\ Len(p) = 2
        /\ Len(d) = 3 /\ Len(t) = 3
        /\ AllDigits(d[1]) /\ Len(d[1]) = 4
        /\ \A k \in {2, 3} : Digits12(d[k])
        /\ \A k \in 1..3 : Digits12(t[k])
        /\ DigitsVal(d[2]) \in 1..12
        /\ DigitsVal(d[3]) \in 1..DaysIn(DigitsVal(d[1]), DigitsVal(d[2]))
        /\ DigitsVal(t[1]) \in 0..23
        /\ DigitsVal(t[2]) \in 0..59
        /\ DigitsVal(t[3]) \in 0..61

TimeVal(s) ==
    LET p == Split(s, " ")
        d == Split(p[1], "-")
        t == Split(p[2], ":")
    IN  [kind |-> "datetime",
         value |-> <<DigitsVal(d[1]), DigitsVal(d[2]), DigitsVal(d[3]),
                     DigitsVal(t[1]), DigitsVal(t[2]), DigitsVal(t[3])>>]

\* strptime(cells[i].text.strip(), ...), the int 0 when anything raises
TimeCell(cells, i) ==
    IF HasCell(cells, i) /\ TimeOk(Strip(cells[i + 1]))
    THEN TimeVal(Strip(cells[i + 1])) ELSE ZeroTime

\* id.split("-") of the stripped first cell
IdParts(cells) == Split(Strip(cells[1]), "-")

\* a variant that keeps one module per identity (last seen wins)
TryAddModuleDedup(inverter, id_parts, power, dc, ac) ==
    IF Len(id_parts) < 2 THEN inverter
    ELSE LET sm == SolarModule(id_parts[2], power, dc, ac)
             old == {k \in 1..Len(inverter.solarmodules) :
                        inverter.solarmodules[k].id = sm.id}
         IN  IF old = {} THEN add_solar_module(inverter, sm)
             ELSE [inverter EXCEPT !.solarmodules =
                      [k \in 1..Len(@) |-> IF k \in old THEN sm ELSE @[k]]]

\* a variant that gives the module of an identity without "-" an empty id
TryAddModuleDefaultId(inverter, id_parts, power, dc, ac) ==
    add_solar_module(inverter,
        SolarModule(IF Len(id_parts) >= 2 THEN id_parts[2] ELSE <<>>,
                    power, dc, ac))

\* add_solar_module(SolarModule(id_parts[1], ...)) inside its try: the
\* IndexError of an identity without "-" is logged and the module is lost
TryAddModule(inverter, id_parts, power, dc, ac) ==
    IF Len(id_parts) >= 2
    THEN add_solar_module(inverter, SolarModule(id_parts[2], power, dc, ac))
    ELSE inverter

\* a variant that opens the new inverter without flushing the open one
NewInverterRowNoFlush(ecu, curr, cells) ==
    [ecuData |-> ecu,
     currInverter |->
         TryAddModule(InverterData(IdParts(cells)[1],
                                   FloatCell(cells, 3, <<"H", "z">>),
                                   IntCell(cells, 5, CELSIUS),
                                   TimeCell(cells, 6)),
                      IdParts(cells), IntCell(cells, 1, <<"W">>),
                      IntCell(cells, 2, <<"V">>), IntCell(cells, 4, <<"V">>))]

\* a variant with one try around the parsing of the cells: a cell that does
\* not parse aborts the row
NewInverterRowOneTry(ecu, curr, cells) ==
    IF /\ IntOk(Strip(Replace(cells[2], <<"W">>)))
       /\ IntOk(Strip(Replace(cells[3], <<"V">>)))
       /\ FloatOk(Strip(Replace(cells[4], <<"H", "z">>)))
       /\ IntOk(Strip(Replace(cells[5], <<"V">>)))
       /\ IntOk(Strip(Replace(cells[6], CELSIUS)))
       /\ TimeOk(Strip(cells[7]))
    THEN [ecuData |-> IF curr # None THEN add_inverter(ecu, curr) ELSE ecu,
          currInverter |->
              TryAddModule(InverterData(IdParts(cells)[1],
                                        FloatCell(cells, 3, <<"H", "z">>),
                                        IntCell(cells, 5, CELSIUS),
                                        TimeCell(cells, 6)),
                           IdParts(cells), IntCell(cells, 1, <<"W">>),
                           IntCell(cells, 2, <<"V">>),
                           IntCell(cells, 4, <<"V">>))]
    ELSE [ecuData |-> ecu, currInverter |-> curr]

\* the branch for a row of exactly 7 cells: flush the open inverter, open
\* a new one and add the module the row embeds
NewInverterRow(ecu, curr, cells) ==
    LET power == IntCell(cells, 1, <<"W">>)
        dc == IntCell(cells, 2, <<"V">>)
        hz == FloatCell(cells, 3, <<"H", "z">>)
        ac == IntCell(cells, 4, <<"V">>)
        temp == IntCell(cells, 5, CELSIUS)
        f == TimeCell(cells, 6)
        id_parts == IdParts(cells)
    IN  [ecuData |-> IF curr # None THEN add_inverter(ecu, curr) ELSE ecu,
         currInverter |->
             TryAddModule(InverterData(id_parts[1], hz, temp, f),
                          id_parts, power, dc, ac)]

\* a variant that reads a continuation row with the columns of a 7-cell row
ContinuationRowUniform(ecu, curr, cells) ==
    [ecuData |-> ecu,
     currInverter |-> TryAddModule(curr, IdParts(cells),
                                   IntCell(cells, 1, <<"W">>),
                                   IntCell(cells, 2, <<"V">>),
                                   IntCell(cells, 4, <<"V">>))]

\* the branch for any other row with cells, taken while an inverter is open
ContinuationRow(ecu, curr, cells) ==
    LET power == IntCell(cells, 1, <<"W">>)
        dc == IntCell(cells, 2, <<"V">>)
        ac == IntCell(cells, 3, <<"V">>)
    IN  [ecuData |-> ecu,
         currInverter |-> TryAddModule(curr, IdParts(cells), power, dc, ac)]

\* a variant in which a continuation row opens an inverter when none is open
ProcessRowOpens(ecu, curr, cells) ==
    IF Len(cells) = 0 THEN [ecuData |-> ecu, currInverter |-> curr]
    ELSE IF Len(cells) = 7 THEN NewInverterRow(ecu, curr, cells)
    ELSE ContinuationRow(ecu,
             IF curr # None THEN curr
             ELSE InverterData(IdParts(cells)[1], FloatOfInt(0), 0, ZeroTime),
             cells)

\* one iteration of the loop over the <tr> rows
ProcessRow(ecu, curr, cells) ==
    IF Len(cells) = 0 THEN [ecuData |-> ecu, currInverter |-> curr]
    ELSE IF Len(cells) = 7 THEN NewInverterRow(ecu, curr, cells)
    ELSE IF curr # None THEN ContinuationRow(ecu, curr, cells)
    ELSE [ecuData |-> ecu, currInverter |-> curr]

\* after the loop: the still open inverter is appended
FlushLast(ecu, curr) == IF curr # None THEN add_inverter(ecu, curr) ELSE ecu

\* ------------------------------------------------------------- the inputs
\* what the gateway may answer; a request that raises is the page ErrorDoc
ErrorDoc == [kind |-> "error", table |-> FALSE, rows |-> <<>>]

NoTableDoc == [kind |-> "html", table |-> FALSE, rows |-> <<>>]

\* no page held
NoDoc == [kind |-> "none", table |-> FALSE, rows |-> <<>>]

TablePage(rows) == [kind |-> "html", table |-> TRUE, rows |-> rows]

\* the well-formed text of each summary field, in the order of Labels
GoodText ==
    <<  <<"2", "1", "6">>,
        <<"1", "2", ".", "5", " ", "k", "W", "h">>,
        <<"2", "5", "0", " ", "W">>,
        <<"3", ".", "2", " ", "k", "W", "h">>,
        <<"4">>,
        <<"3">>,
        <<"v", "2">>  >>

\* a text no number parses from
BadText == <<"n", "/", "a">>

\* how a summary field may appear: well-formed, unparsable, its row
\* absent, or its label without a data cell
Kinds == {"good", "bad", "missing", "notd"}

SummaryRow(k, kind) ==
    [th |-> Labels[k], hasTd |-> kind # "notd",
     td |-> IF kind = "good" THEN GoodText[k]
            ELSE IF kind = "bad" THEN BadText ELSE <<>>]

RECURSIVE SummaryRowsFrom(_, _)
SummaryRowsFrom(kinds, k) ==
    IF k > Len(Labels) THEN <<>>
    ELSE (IF kinds[k] = "missing" THEN <<>> ELSE <<SummaryRow(k, kinds[k])>>)
         \o SummaryRowsFrom(kinds, k + 1)

\* the summary page whose k-th field appears as kinds[k]
SummaryPage(kinds) == TablePage(SummaryRowsFrom(kinds, 1))

AllGood == [k \in 1..Len(Labels) |-> "good"]

GoodSummary == SummaryPage(AllGood)

\* the pages with at most MaxBadFields fields that are not well-formed
DefectChoices ==
    {kinds \in [1..Len(Labels) -> Kinds] :
        Cardinality({k \in 1..Len(Labels) : kinds[k] # "good"}) <= MaxBadFields}

RichSummaryDocs ==
    {SummaryPage(kinds) : kinds \in DefectChoices} \cup {ErrorDoc, NoTableDoc}

\* a few summary pages: well-formed, numbers unparsable, no ECU ID
BasicSummaryDocs ==
    {GoodSummary,
     SummaryPage([AllGood EXCEPT ![2] = "bad", ![3] = "missing"]),
     SummaryPage([AllGood EXCEPT ![1] = "missing"]),
     ErrorDoc, NoTableDoc}

T_W(d) == <<"1", d, "0", " ", "W">>

T_V(d) == <<"3", d, " ", "V">>

T_HZ == <<"5", "0", ".", "1", " ", "H", "z">>

T_TEMP == <<"2", "5", " ", ACIRC, DEG, "C">>

T_TIME ==
    <<"2", "0", "2", "4", "-", "0", "2", "-", "2", "9", " ",
      "0", "7", ":", "0", "8", ":", "0", "9">>

\* a new-inverter row: 7 cells
Row7(id, d) == <<id, T_W(d), T_V(d), T_HZ, T_V("9"), T_TEMP, T_TIME>>

\* a continuation row: identity, power, dc voltage, ac voltage
Row4(id, d) == <<id, T_W(d), T_V(d), T_V("8")>>

\* the rows the realtime table is made of
RowAlphabet ==
    {<<>>,
     Row7(<<"A", "-", "1">>, "1"),
     Row7(<<"B", "-", "1">>, "2"),
     Row7(<<"C">>, "3"),
     Row4(<<"A", "-", "2">>, "4"),
     Row4(<<"D">>, "5"),
     <<<<"A", "-", "3">>, T_W("6")>>}

RowSeqs(S, n) == UNION {[1..m -> S] : m \in 0..n}

RealtimeDocs ==
    {TablePage(rows) : rows \in RowSeqs(RowAlphabet, MaxRows)}
        \cup {ErrorDoc, NoTableDoc}

\* one realtime page of a 7-cell row and a 4-cell row
SmallRealtime ==
    TablePage(<<Row7(<<"A", "-", "1">>, "1"), Row4(<<"A", "-", "2">>, "4")>>)

BasicRealtimeDocs == {SmallRealtime, ErrorDoc, NoTableDoc}

\* the well-formed data cells of a 7-cell row and of a continuation row
Good7 == <<T_W("1"), T_V("1"), T_HZ, T_V("9"), T_TEMP, T_TIME>>

Good4 == <<T_W("4"), T_V("4"), T_V("8"), T_HZ>>

\* a row of n cells after the identity: cell i well-formed where good[i]
MaskedRow(id, texts, good, n) ==
    <<id>> \o [i \in 1..n |-> IF good[i] THEN texts[i] ELSE BadText]

Identities == {<<"B", "-", "7">>, <<"B">>}

\* every 7-cell row and every continuation row of 1 to 5 cells over
\* well-formed and unparsable data cells, with and without a "-"
MaskedRows ==
    {MaskedRow(id, Good7, good, 6) :
        id \in Identities, good \in [1..6 -> BOOLEAN]}
    \cup
    UNION {{MaskedRow(id, Good4, good, n) :
               id \in Identities, good \in [1..n -> BOOLEAN]} : n \in 0..4}

Addresses == {"192.168.1.10", "192.168.1.11"}

Letters ==
    {"a", "b", "c", "d", "e", "f", "g", "h", "i", "j", "k", "l", "m",
     "n", "o", "p", "q", "r", "s", "t", "u", "v", "w", "x", "y", "z",
     "A", "B", "C", "D", "E", "F", "G", "H", "I", "J", "K", "L", "M",
     "N", "O", "P", "Q", "R", "S", "T", "U", "V", "W", "X", "Y", "Z"}

\* re.sub(r"[^0-9a-zA-Z]+", "", s)
RECURSIVE Alnum(_)
Alnum(s) ==
    IF s = <<>> THEN <<>>
    ELSE (IF Head(s) \in Digits \cup Letters THEN <<Head(s)>> ELSE <<>>)
         \o Alnum(Tail(s))

\* the alias typed into the config-flow form, and the one of the entry
TypedAlias == <<"r", "o", "o", "f", " ", "1">>

EntryAlias == <<"r", "o", "o", "f", "1">>

\* ---------------------------------------------------------------- the state
Clients == {"coordinator", "flow"}

SUMMARY_URL == "/"

REALTIME_URL == "/index.php/realtimedata"

VARIABLES
    call,     \* per EcuClient: the activation of get_ecu_data and its locals
    data,     \* coordinator.data, the snapshot the sensors read
    cycles,   \* refreshes the coordinator has started
    submits,  \* config-flow forms submitted
    errors,   \* errors["base"] of the last config-flow step, or "none"
    list_sensor,  \* the sensor entities async_setup_entry added
    handled   \* how the last round of _handle_coordinator_update ended

vars == <<call, data, cycles, submits, errors, list_sensor, handled>>

\* an EcuClient(address, alias) with no fetch running
IdleCall(address, alias) ==
    [pc |-> "idle", address |-> address, alias |-> alias, requests |-> <<>>,
     soup |-> NoDoc, ecuData |-> None, soup_realtimedata |-> NoDoc,
     idx |-> 0, currInverter |-> None, result |-> None]

Init ==
    /\ call = [c \in Clients |-> IdleCall("192.168.1.10", EntryAlias)]
    /\ data = None
    /\ cycles = 0
    /\ submits = 0
    /\ errors = "none"
    /\ list_sensor = {}
    /\ handled = "none"

InFlight(c) == call[c].pc \in {"summary_wait", "realtime_wait", "rows"}

\* ----------------------------------------------------------- get_ecu_data
\* a variant whose except clause does not catch: the exception leaves
\* get_ecu_data
ExceptRaises(cl) == [cl EXCEPT !.pc = "raised"]

\* the bare "except: return None" around the whole body
Except(cl) == [cl EXCEPT !.pc = "returned", !.result = None]

\* a variant that issues both GETs at once
StartBoth(cl) ==
    [cl EXCEPT !.pc = "summary_wait",
               !.requests = <<SUMMARY_URL, REALTIME_URL>>]

\* entering get_ecu_data: the session is opened and the summary GET issued
Start(cl) ==
    [cl EXCEPT !.pc = "summary_wait", !.requests = <<SUMMARY_URL>>]

\* a variant that gives a missing ECU ID a default like the other fields
OnSummaryDefaultId(cl, doc) ==
    IF doc.kind = "error" THEN Except(cl)
    ELSE [cl EXCEPT !.soup = doc,
                    !.ecuData = ExtractSummary(doc, cl.address, cl.alias),
                    !.requests = Append(@, REALTIME_URL),
                    !.pc = "realtime_wait"]

\* the summary answer: parse, take the ECU ID, extract the six fields,
\* build ecuData and issue the realtime GET
OnSummary(cl, doc) ==
    IF doc.kind = "error" THEN Except(cl)
    ELSE IF ~FindTd(doc, "ECU ID").ok THEN Except([cl EXCEPT !.soup = doc])
    ELSE [cl EXCEPT !.soup = doc,
                    !.ecuData = ExtractSummary(doc, cl.address, cl.alias),
                    !.requests = Append(@, REALTIME_URL),
                    !.pc = "realtime_wait"]

\* the realtime answer: parse, take the rows of the table
OnRealtime(cl, doc) ==
    IF doc.kind = "error" THEN Except(cl)
    ELSE IF ~doc.table THEN Except([cl EXCEPT !.soup_realtimedata = doc])
    ELSE [cl EXCEPT !.soup_realtimedata = doc, !.currInverter = None,
                    !.idx = 1, !.pc = "rows"]

\* a variant in which the snapshot follows the locals id and power that the
\* loop reassigns for every row with cells
OnRowClobbers(cl) ==
    LET cells == cl.soup_realtimedata.rows[cl.idx]
        r == ProcessRow(cl.ecuData, cl.currInverter, cells)
    IN  [cl EXCEPT !.ecuData =
                       IF Len(cells) = 0 THEN r.ecuData
                       ELSE [r.ecuData EXCEPT !.id = Strip(cells[1]),
                                              !.power = IntCell(cells, 1, <<"W">>)],
                   !.currInverter = r.currInverter,
                   !.idx = @ + 1]

\* one iteration of the row loop
OnRow(cl) ==
    LET r == ProcessRow(cl.ecuData, cl.currInverter,
                        cl.soup_realtimedata.rows[cl.idx])
    IN  [cl EXCEPT !.ecuData = r.ecuData, !.currInverter = r.currInverter,
                   !.idx = @ + 1]

\* the end of the loop: flush the open inverter and return ecuData
OnEnd(cl) ==
    LET ecu == FlushLast(cl.ecuData, cl.currInverter)
    IN  [cl EXCEPT !.ecuData = ecu, !.result = ecu, !.pc = "returned"]

SummaryResponse(c, doc) ==
    /\ call[c].pc = "summary_wait"
    /\ call' = [call EXCEPT ![c] = OnSummary(@, doc)]
    /\ UNCHANGED <<data, cycles, submits, errors, list_sensor, handled>>

RealtimeResponse(c, doc) ==
    /\ call[c].pc = "realtime_wait"
    /\ call' = [call EXCEPT ![c] = OnRealtime(@, doc)]
    /\ UNCHANGED <<data, cycles, submits, errors, list_sensor, handled>>

RowStep(c) ==
    /\ call[c].pc = "rows"
    /\ call[c].idx <= Len(call[c].soup_realtimedata.rows)
    /\ call' = [call EXCEPT ![c] = OnRow(@)]
    /\ UNCHANGED <<data, cycles, submits, errors, list_sensor, handled>>

EndRows(c) ==
    /\ call[c].pc = "rows"
    /\ call[c].idx > Len(call[c].soup_realtimedata.rows)
    /\ call' = [call EXCEPT ![c] = OnEnd(@)]
    /\ UNCHANGED <<data, cycles, submits, errors, list_sensor, handled>>

\* ----------------------------------------------------------- the sensors
\* A sensor entity is [kind, inv_id, id]: what its constructor stores to
\* find its object again in later snapshots.
EcuSensor == [kind |-> "ecu", inv_id |-> <<>>, id |-> <<>>]

\* self._id = inverter._id
InverterSensor(inverter) ==
    [kind |-> "inverter", inv_id |-> <<>>, id |-> inverter.id]

\* self._inv_id = inverter_id; self._id = re.sub(..., "", module._id)
SolarModuleSensor(module, inverter_id) ==
    [kind |-> "module", inv_id |-> inverter_id, id |-> Alnum(module.id)]

\* the entities async_setup_entry builds from coordinator.data
async_setup_entry(ecu) ==
    {EcuSensor}
        \cup {InverterSensor(ecu.inverters[i]) : i \in 1..Len(ecu.inverters)}
        \cup UNION {{SolarModuleSensor(ecu.inverters[i].solarmodules[k],
                                       ecu.inverters[i].id) :
                        k \in 1..Len(ecu.inverters[i].solarmodules)} :
                    i \in 1..Len(ecu.inverters)}

\* _handle_coordinator_update of a sensor on the new coordinator.data:
\* value_fn reads an attribute of what the lookup gave, and an attribute of
\* None raises AttributeError, as does a lookup method called on None
handle_coordinator_update(sensor, ecu) ==
    IF ecu = None THEN "error"
    ELSE IF sensor.kind = "ecu" THEN "ok"
    ELSE IF sensor.kind = "inverter"
         THEN IF get_inverter_by_id(ecu, sensor.id) = None
              THEN "error" ELSE "ok"
    ELSE LET inverter == get_inverter_by_id(ecu, sensor.inv_id)
         IN  IF inverter = None THEN "error"
             ELSE IF get_solarmodule_by_id(inverter, sensor.id) = None
                  THEN "error" ELSE "ok"

\* the listeners of the coordinator run on the data just published
async_update_listeners(sensors, ecu, before) ==
    IF sensors = {} THEN before
    ELSE IF \E sensor \in sensors :
                handle_coordinator_update(sensor, ecu) = "error"
         THEN "error" ELSE "ok"

\* the sensor platform is set up from the snapshot the coordinator holds
Setup ==
    /\ list_sensor = {}
    /\ data # None
    /\ list_sensor' = async_setup_entry(data)
    /\ UNCHANGED <<call, data, cycles, submits, errors, handled>>

\* ---------------------------------------------------------- the callers
\* what the coordinator keeps as its data once _async_update_data, which
\* returns the result of get_ecu_data as it is, has returned
Published(old, result) == result

\* a refresh of the coordinator (the first one, or a tick of the 5 minute
\* interval, which is not armed while a refresh runs)
Refresh(limit) ==
    /\ cycles < limit
    /\ call["coordinator"].pc = "idle"
    /\ call' = [call EXCEPT !["coordinator"] = Start(@)]
    /\ cycles' = cycles + 1
    /\ UNCHANGED <<data, submits, errors, list_sensor, handled>>

\* _async_update_data returns, the coordinator publishes and calls the
\* _handle_coordinator_update of every sensor
Publish ==
    /\ call["coordinator"].pc = "returned"
    /\ data' = Published(data, call["coordinator"].result)
    /\ handled' = async_update_listeners(list_sensor, data', handled)
    /\ call' = [call EXCEPT !["coordinator"] = IdleCall(@.address, @.alias)]
    /\ UNCHANGED <<cycles, submits, errors, list_sensor>>

\* whether validate_input may start its fetch while the clients in others
\* are fetching from the same address: nothing in it looks
MayFetch(address, others) == TRUE

\* async_step_user with form data: the alias is sanitised and
\* validate_input builds a client of its own and fetches
Submit(address) ==
    /\ submits < MaxSubmits
    /\ call["flow"].pc = "idle"
    /\ MayFetch(address, {c \in Clients \ {"flow"} : InFlight(c)})
    /\ call' = [call EXCEPT
                   !["flow"] = Start(IdleCall(address, Alnum(TypedAlias)))]
    /\ submits' = submits + 1
    /\ errors' = "none"
    /\ UNCHANGED <<data, cycles, list_sensor, handled>>

\* validate_input returns or raises CannotConnect; the handler of
\* CannotConnect leaves errors["base"] at "unknown"
FlowReturn ==
    /\ call["flow"].pc = "returned"
    /\ errors' = IF call["flow"].result = None THEN "unknown" ELSE "none"
    /\ call' = [call EXCEPT !["flow"] = IdleCall(@.address, @.alias)]
    /\ UNCHANGED <<data, cycles, submits, list_sensor, handled>>

\* ------------------------------------------------------ the specifications
\* one call of get_ecu_data by the coordinator, any realtime table
Fetch(SummaryDocs, RtDocs) ==
    \/ Refresh(1)
    \/ \E doc \in SummaryDocs : SummaryResponse("coordinator", doc)
    \/ \E doc \in RtDocs : RealtimeResponse("coordinator", doc)
    \/ RowStep("coordinator")
    \/ EndRows("coordinator")
    \/ Publish

Next == Fetch(BasicSummaryDocs, RealtimeDocs)

Spec == Init /\ [][Next]_vars

\* one call of get_ecu_data, any summary page
SummaryNext == Fetch(RichSummaryDocs, BasicRealtimeDocs)

SummarySpec == Init /\ [][SummaryNext]_vars

\* the row loop alone: a first row that opens an inverter or does not, any
\* row of MaskedRows, then a continuation row
RowInit ==
    /\ \E first \in {<<>>, Row7(<<"A", "-", "1">>, "1")} :
       \E row \in MaskedRows :
           call = [c \in Clients |->
                     IF c = "flow" THEN IdleCall("192.168.1.10", EntryAlias)
                     ELSE OnRealtime(
                              OnSummary(
                                  Start(IdleCall("192.168.1.10", EntryAlias)),
                                  GoodSummary),
                              TablePage(<<first, row,
                                          Row4(<<"A", "-", "2">>, "4")>>))]
    /\ data = None
    /\ cycles = 1
    /\ submits = 0
    /\ errors = "none"
    /\ list_sensor = {}
    /\ handled = "none"

RowNext == RowStep("coordinator") \/ EndRows("coordinator")

RowSpec == RowInit /\ [][RowNext]_vars

\* the coordinator polling while the config flow validates an address
PollNext ==
    \/ Refresh(MaxCycles)
    \/ \E a \in Addresses : Submit(a)
    \/ \E c \in Clients : \E doc \in {GoodSummary, ErrorDoc} :
           SummaryResponse(c, doc)
    \/ \E c \in Clients : \E doc \in {SmallRealtime, ErrorDoc} :
           RealtimeResponse(c, doc)
    \/ \E c \in Clients : RowStep(c)
    \/ \E c \in Clients : EndRows(c)
    \/ Publish
    \/ FlowReturn

PollSpec == Init /\ [][PollNext]_vars

\* realtime pages for the sensors: another inverter, and a module id that
\* is not alphanumeric
OtherRealtime == TablePage(<<Row7(<<"B", "-", "1">>, "2")>>)

PunctRealtime == TablePage(<<Row7(<<"A", "-", "1", ".", "2">>, "1")>>)

SensorRealtimeDocs == {SmallRealtime, OtherRealtime, PunctRealtime, ErrorDoc}

\* the coordinator polling with the sensor platform set up on its data
SensorNext ==
    \/ Refresh(MaxCycles)
    \/ \E doc \in {GoodSummary, ErrorDoc} :
           SummaryResponse("coordinator", doc)
    \/ \E doc \in SensorRealtimeDocs : RealtimeResponse("coordinator", doc)
    \/ RowStep("coordinator")
    \/ EndRows("coordinator")
    \/ Publish
    \/ Setup

SensorSpec == Init /\ [][SensorNext]_vars

\* --------------------------------------------------- reading a row stream
\* the call of get_ecu_data the single-call specifications follow
co == call["coordinator"]

rtRows == co.soup_realtimedata.rows

\* the positions of the new-inverter rows among the first n rows
Sevens(rows, n) == {p \in 1..n : p <= Len(rows) /\ Len(rows[p]) = 7}

\* the position of the i-th new-inverter row
NthSeven(rows, i) ==
    CHOOSE p \in Sevens(rows, Len(rows)) :
        Cardinality(Sevens(rows, p)) = i

\* the continuation rows of the group the new-inverter row at p opens:
\* rows with cells after p, up to n, with no 7-cell row in between
Continuations(rows, p, n) ==
    {q \in (p + 1)..n :
        /\ Len(rows[q]) \notin {0, 7}
        /\ \A j \in (p + 1)..q : Len(rows[j]) # 7}

\* the elements of a set of numbers in ascending order
RECURSIVE Ascending(_)
Ascending(S) ==
    IF S = {} THEN <<>>
    ELSE LET lo == CHOOSE x \in S : \A y \in S : x <= y
         IN  <<lo>> \o Ascending(S \ {lo})

\* the identity cell of a row has the form <inverter>-<module>
Composite(cells) == \E k \in 1..Len(cells[1]) : cells[1][k] = "-"

\* a module as (identity, power), which tells the rows of RowAlphabet apart
Tag(m) == <<m.id, m.power>>

\* the tag of the module a row carries
RowTag(cells) == <<IdParts(cells)[2], IntCell(cells, 1, <<"W">>)>>

\* a fetch that returned a snapshot
Returned == co.pc = "returned" /\ co.result # None

\* the modules the group opened at row p must hold: one per row of the
\* group whose identity is composite, in row order
GroupTags(rows, p) ==
    LET group == Ascending({p} \cup Continuations(rows, p, Len(rows)))
        kept == SelectSeq(group, LAMBDA q : Composite(rows[q]))
    IN  [k \in 1..Len(kept) |-> RowTag(rows[kept[k]])]

ModuleTags(inverter) ==
    [k \in 1..Len(inverter.solarmodules) |-> Tag(inverter.solarmodules[k])]

NumSevens == Cardinality(Sevens(rtRows, Len(rtRows)))

\* ------------------------------------------------------------------ C1
\* C1 as stated: in a returned snapshot the inverter opened by a 7-cell row
\* that k continuation rows follow has exactly k+1 modules.
C1_KPlusOneModules ==
    Returned =>
        \A i \in 1..NumSevens :
            /\ i <= Len(co.result.inverters)
            /\ Len(co.result.inverters[i].solarmodules) =
                   1 + Cardinality(Continuations(rtRows, NthSeven(rtRows, i),
                                                 Len(rtRows)))

\* C1 amended: in a returned snapshot the inverter opened by a 7-cell row
\* holds exactly one module per row of its group (the 7-cell row and its
\* continuation rows) whose identity cell contains a "-", in row order, so
\* k+1 modules when every identity of the group has the form inv-mod; no
\* row is deduplicated or merged.
C1_OneModulePerCompositeRow ==
    Returned =>
        \A i \in 1..NumSevens :
            /\ i <= Len(co.result.inverters)
            /\ ModuleTags(co.result.inverters[i]) =
                   GroupTags(rtRows, NthSeven(rtRows, i))

\* a snapshot was returned with an inverter of three modules, two of them
\* from continuation rows
C1_Witness ==
    /\ Returned
    /\ \E i \in 1..Len(co.result.inverters) :
           /\ Len(co.result.inverters[i].solarmodules) = 3
           /\ Cardinality(Continuations(rtRows, NthSeven(rtRows, i),
                                        Len(rtRows))) = 2

\* ------------------------------------------------------------------ C2
\* the identities of the inverters the first n rows must have opened
SevenIds(rows, n) ==
    LET at == Ascending(Sevens(rows, n))
    IN  [k \in 1..Len(at) |-> IdParts(rows[at[k]])[1]]

InverterIds(inverters) == [k \in 1..Len(inverters) |-> inverters[k].id]

\* two 7-cell rows in a row at p and p+1
Consecutive(rows, p) ==
    p + 1 <= Len(rows) /\ Len(rows[p]) = 7 /\ Len(rows[p + 1]) = 7

\* one inverter per 7-cell row, in row order, the open one flushed before
\* the next is opened and the last one flushed once after the loop
OnePerSeven ==
    /\ co.pc = "rows" =>
           LET ids == SevenIds(rtRows, co.idx - 1)
           IN  /\ (co.currInverter # None) <=> (ids # <<>>)
               /\ ids # <<>> =>
                      /\ co.currInverter.id = ids[Len(ids)]
                      /\ InverterIds(co.ecuData.inverters) =
                             SubSeq(ids, 1, Len(ids) - 1)
               /\ ids = <<>> => co.ecuData.inverters = <<>>
    /\ Returned =>
           InverterIds(co.result.inverters) = SevenIds(rtRows, Len(rtRows))

\* C2 as stated: one inverter per 7-cell row, in row order, each appended
\* once, and two consecutive 7-cell rows yield inverters of one module each.
C2_OnePerSevenOneModule ==
    /\ OnePerSeven
    /\ Returned =>
           \A p \in 1..Len(rtRows) :
               Consecutive(rtRows, p) =>
                   Len(co.result.inverters[Cardinality(Sevens(rtRows, p))]
                           .solarmodules) = 1

\* C2 amended: one inverter per 7-cell row, in row order, each appended
\* exactly once (the open inverter is appended before the next is opened,
\* the last one once after the loop); two consecutive 7-cell rows yield two
\* inverters, the first with one module when its identity cell contains a
\* "-" and with none otherwise.
C2_OnePerSeven ==
    /\ OnePerSeven
    /\ Returned =>
           \A p \in 1..Len(rtRows) :
               Consecutive(rtRows, p) =>
                   Len(co.result.inverters[Cardinality(Sevens(rtRows, p))]
                           .solarmodules) =
                       IF Composite(rtRows[p]) THEN 1 ELSE 0

\* a snapshot of two inverters was returned for two consecutive 7-cell rows
C2_Witness ==
    /\ Returned
    /\ Len(rtRows) = 2 /\ Consecutive(rtRows, 1)
    /\ Len(co.result.inverters) = 2

\* ------------------------------------------------------------------ C3
\* the row the loop is about to process
AtRow == co.pc = "rows" /\ co.idx <= Len(rtRows)

\* C3: a row without cells, and a continuation row met while no inverter is
\* open, leave the inverter list and the open inverter as they were (empty
\* and none in the second case) and the loop goes on to the next row.
C3_DroppedRows ==
    [][(/\ AtRow
        /\ co'.idx = co.idx + 1
        /\ \/ Len(rtRows[co.idx]) = 0
           \/ Len(rtRows[co.idx]) # 7 /\ co.currInverter = None)
       => /\ co'.pc = "rows"
          /\ co'.ecuData = co.ecuData
          /\ co'.currInverter = co.currInverter
          /\ co.currInverter = None => co.ecuData.inverters = <<>>]_vars

\* a continuation row has just been processed with no inverter open
C3_Witness ==
    /\ co.pc = "rows" /\ co.idx > 1
    /\ Len(rtRows[co.idx - 1]) \notin {0, 7}
    /\ co.currInverter = None
    /\ co.ecuData.inverters = <<>>

\* ------------------------------------------------- reading a summary page
\* the page has a table with an "ECU ID" label followed by a data cell
HasEcuId(doc) ==
    /\ doc.table
    /\ \E k \in 1..Len(doc.rows) :
           /\ doc.rows[k].th = "ECU ID" /\ doc.rows[k].hasTd
           /\ \A j \in 1..(k - 1) : doc.rows[j].th # "ECU ID"

\* the summary failed: the request raised, or no ECU ID could be read
SummaryFailed == co.soup = NoDoc \/ ~HasEcuId(co.soup)

\* the realtime step failed: the request raised, or the page has no table
RealtimeFailed == co.soup_realtimedata = NoDoc \/ ~co.soup_realtimedata.table

\* ------------------------------------------------------------------ C4
\* C4: when the summary page has no table, no "ECU ID" label or no data
\* cell after the label, get_ecu_data returns None: no snapshot is built,
\* whatever the other summary fields are, and the realtime page is not
\* even requested.
C4_NoEcuIdFails ==
    (co.soup # NoDoc /\ ~HasEcuId(co.soup)) =>
        /\ co.pc = "returned"
        /\ co.result = None
        /\ co.ecuData = None
        /\ co.requests = <<SUMMARY_URL>>

\* a page with a table and other fields but no usable ECU ID was answered
C4_Witness ==
    /\ co.pc = "returned"
    /\ co.soup # NoDoc /\ co.soup.table /\ ~HasEcuId(co.soup)
    /\ \E k \in 1..Len(co.soup.rows) : co.soup.rows[k].th = "Last System Power"
    /\ co.result = None

\* ------------------------------------------------------------------ C5
\* every row processed and the last inverter flushed
Complete ==
    /\ co.idx = Len(rtRows) + 1
    /\ co.result = co.ecuData
    /\ Len(co.result.inverters) = NumSevens

\* C5: get_ecu_data never raises; it returns None when either request or
\* either page fails (a realtime page without a table included) and
\* otherwise a snapshot for which every row was processed; nothing else
\* is ever returned.
C5_BinaryOutcome ==
    /\ co.pc \in {"idle", "summary_wait", "realtime_wait", "rows", "returned"}
    /\ co.result # None => co.pc = "returned" /\ Complete
    /\ co.pc = "returned" =>
           ((SummaryFailed \/ RealtimeFailed) <=> co.result = None)

\* None was returned for a realtime page without a table
C5_Witness ==
    /\ co.pc = "returned" /\ co.result = None
    /\ co.ecuData # None
    /\ co.soup_realtimedata = NoTableDoc

\* ----------------------------------------------------------------- C10
\* C10: one call issues the summary GET once, then, only after the summary
\* was answered and the ECU ID read from it, the realtime GET once; when
\* the summary request or the identity fails the realtime GET is not issued.
C10_SequentialSingleAttempt ==
    /\ co.requests \in {<<>>, <<SUMMARY_URL>>, <<SUMMARY_URL, REALTIME_URL>>}
    /\ co.pc = "idle" => co.requests = <<>>
    /\ co.pc = "summary_wait" => co.requests = <<SUMMARY_URL>>
    /\ Len(co.requests) = 2 =>
           /\ co.soup # NoDoc /\ HasEcuId(co.soup)
           /\ co.ecuData # None
    /\ (co.pc = "returned" /\ SummaryFailed) => co.requests = <<SUMMARY_URL>>
    /\ co.pc \in {"realtime_wait", "rows"} =>
           co.requests = <<SUMMARY_URL, REALTIME_URL>>

\* a call returned after its identity extraction failed, with one request
C10_Witness ==
    /\ co.pc = "returned"
    /\ co.soup # NoDoc /\ ~HasEcuId(co.soup)
    /\ co.requests = <<SUMMARY_URL>>

\* ------------------------------------------------------------------ C7
\* the data cell of field k, when the page has one
FieldCells(doc, k) ==
    {j \in 1..Len(doc.rows) : doc.rows[j].th = Labels[k] /\ doc.rows[j].hasTd}

\* field k is on the page with its well-formed text
WellFormed(doc, k) ==
    \E j \in FieldCells(doc, k) : doc.rows[j].td = GoodText[k]

\* the value of each well-formed text, in the order of Labels
GoodValue ==
    <<  <<"2", "1", "6">>, [m |-> 125, e |-> 1], 250, [m |-> 32, e |-> 1],
        4, 3, <<"v", "2">>  >>

\* the documented default of each field
DefaultValue ==
    <<  <<>>, [m |-> 0, e |-> 0], 0, [m |-> 0, e |-> 0], 0, 0, <<>>  >>

\* what field k of the snapshot must be; any text is a software version
Expected(doc, k) ==
    IF WellFormed(doc, k) THEN GoodValue[k]
    ELSE IF k = 7 /\ FieldCells(doc, k) # {}
         THEN doc.rows[CHOOSE j \in FieldCells(doc, k) : TRUE].td
         ELSE DefaultValue[k]

FieldOf(ecu, k) ==
    CASE k = 1 -> ecu.id
      [] k = 2 -> ecu.lifetimeGeneration
      [] k = 3 -> ecu.power
      [] k = 4 -> ecu.dailyEnergy
      [] k = 5 -> ecu.numberOfInverters
      [] k = 6 -> ecu.numberOfInvertersOnline
      [] k = 7 -> ecu.softwareVersion

\* C7: with the ECU ID present, each of the six other summary fields is at
\* its default when its label or data cell is missing or its text does not
\* parse, and at the value of its own text otherwise, whatever the state of
\* the other fields; the fetch goes on and, the realtime page being usable,
\* returns the snapshot with these fields.
C7_FieldIsolation ==
    /\ (co.soup # NoDoc /\ HasEcuId(co.soup)) => co.ecuData # None
    /\ co.ecuData # None =>
           \A k \in 2..7 : FieldOf(co.ecuData, k) = Expected(co.soup, k)
    /\ (co.pc = "returned" /\ ~SummaryFailed /\ ~RealtimeFailed) =>
           /\ co.result # None
           /\ \A k \in 2..7 : FieldOf(co.result, k) = Expected(co.soup, k)

\* a snapshot was returned from a page with a failing field before a
\* well-formed one
C7_Witness ==
    /\ Returned
    /\ \E k \in 2..6 : \E j \in (k + 1)..7 :
           /\ ~WellFormed(co.soup, k) /\ WellFormed(co.soup, j)
           /\ FieldOf(co.result, k) = DefaultValue[k]
           /\ FieldOf(co.result, j) = GoodValue[j]

\* ------------------------------------------------------------------ C8
\* what a numeric data cell must give: the value of its well-formed text,
\* 0 when the cell is absent or holds anything else
CellValue(cells, i, text, value, default) ==
    IF HasCell(cells, i) /\ cells[i + 1] = text THEN value ELSE default

\* the module a 7-cell row embeds
Module7(cells) ==
    [id |-> IdParts(cells)[2],
     power |-> CellValue(cells, 1, Good7[1], 110, 0),
     dcvoltage |-> CellValue(cells, 2, Good7[2], 31, 0),
     gridvoltage |-> CellValue(cells, 4, Good7[4], 39, 0)]

\* the module a continuation row carries
Module4(cells) ==
    [id |-> IdParts(cells)[2],
     power |-> CellValue(cells, 1, Good4[1], 140, 0),
     dcvoltage |-> CellValue(cells, 2, Good4[2], 34, 0),
     gridvoltage |-> CellValue(cells, 3, Good4[3], 38, 0)]

\* the inverter a 7-cell row opens
Inverter7(cells) ==
    [id |-> IdParts(cells)[1],
     freq |-> CellValue(cells, 3, Good7[3], [m |-> 501, e |-> 1],
                        [m |-> 0, e |-> 0]),
     temperature |-> CellValue(cells, 5, Good7[5], 25, 0),
     reportingtime |->
         CellValue(cells, 6, Good7[6],
                   [kind |-> "datetime", value |-> <<2024, 2, 29, 7, 8, 9>>],
                   [kind |-> "int", value |-> 0]),
     solarmodules |-> IF Composite(cells) THEN <<Module7(cells)>> ELSE <<>>]

\* the inverter the first row of the stream opens
FirstInverter == Inverter7(rtRows[1])

\* C8: in the row loop every data cell stands for itself.  A 7-cell row
\* opens its inverter with each of frequency, temperature and timestamp at
\* the value of its own cell, 0 when that cell does not parse, and a
\* continuation row (also one with fewer than 4 cells) adds its module
\* with each of power, dc and ac likewise; the module of a row is added
\* exactly when the identity cell contains a "-", whatever the data cells
\* hold, and the loop goes on to the next row.
C8_CellIsolation ==
    (co.pc \in {"rows", "returned"} /\ co.idx >= 3) =>
        LET row == rtRows[2]
            open == Len(rtRows[1]) = 7
            \* the state right after the second row
            inverters == IF open /\ Len(row) = 7 THEN <<FirstInverter>>
                         ELSE <<>>
            current ==
                IF Len(row) = 7 THEN Inverter7(row)
                ELSE IF ~open THEN None
                ELSE IF Len(row) = 0 \/ ~Composite(row) THEN FirstInverter
                ELSE add_solar_module(FirstInverter, Module4(row))
            \* and after the third row, a well-formed continuation row
            last == IF current = None THEN None
                    ELSE add_solar_module(current, Module4(rtRows[3]))
        IN  /\ co.idx = 3 =>
                /\ co.pc = "rows"
                /\ co.ecuData.inverters = inverters
                /\ co.currInverter = current
            /\ co.idx = 4 =>
                /\ co.ecuData.inverters =
                       IF co.pc = "rows" \/ last = None THEN inverters
                       ELSE Append(inverters, last)
                /\ co.currInverter = last

\* a 7-cell row with an unparsable cell was processed and its inverter
\* and module were returned
C8_Witness ==
    /\ Returned
    /\ Len(rtRows[2]) = 7 /\ Composite(rtRows[2])
    /\ \E i \in 1..6 : rtRows[2][i + 1] = BadText
    /\ Len(co.result.inverters) = 2
    /\ Len(co.result.inverters[2].solarmodules) = 2

\* ------------------------------------------------------------------ C6
\* C6: a fetch that ends in None leaves the published snapshot as it was.
C6_FailureKeepsSnapshot ==
    [][(co.pc = "returned" /\ co.result = None /\ co'.pc = "idle")
       => data' = data]_vars

\* ------------------------------------------------------------------ C9
\* C9: no two fetches are in flight against the same address.
C9_NoOverlap ==
    \A c1, c2 \in Clients :
        (c1 # c2 /\ InFlight(c1) /\ InFlight(c2)) =>
            call[c1].address # call[c2].address

\* ----------------------------------------------------------------- C11
\* the gateway-level fields of a snapshot are those read from the summary
\* page and the address and alias of the client
GatewayFieldsFromSummary(ecu) ==
    /\ \A k \in 1..7 : FieldOf(ecu, k) = Expected(co.soup, k)
    /\ ecu.address = co.address
    /\ ecu.alias = co.alias

\* C11: the row loop only adds inverters: while it runs and in the snapshot
\* returned, identity, address, alias, lifetime generation, power, daily
\* energy, both inverter counts and the software version are the values
\* extracted from the summary page, whatever the rows hold.
C11_GatewayFieldsKept ==
    /\ co.pc = "rows" => GatewayFieldsFromSummary(co.ecuData)
    /\ Returned => GatewayFieldsFromSummary(co.result)

\* a snapshot was returned for one 7-cell row and one 4-cell row: one
\* inverter of two modules, the gateway power still the summary's 250
C11_Witness ==
    /\ Returned
    /\ co.soup = GoodSummary
    /\ co.soup_realtimedata = SmallRealtime
    /\ Len(co.result.inverters) = 1
    /\ Len(co.result.inverters[1].solarmodules) = 2
    /\ co.result.power = 250
    /\ co.result.inverters[1].solarmodules[2].power = 140

\* ----------------------------------------------------------------- C12
\* the value a cell text of RowAlphabet stands for
TextValue(text) ==
    IF text = T_HZ THEN [m |-> 501, e |-> 1]
    ELSE IF text = T_TEMP THEN 25
    ELSE IF text = T_TIME
         THEN [kind |-> "datetime", value |-> <<2024, 2, 29, 7, 8, 9>>]
    ELSE IF \E d \in Digits : text = T_W(d)
         THEN 100 + 10 * DigitVal(CHOOSE d \in Digits : text = T_W(d))
    ELSE 30 + DigitVal(CHOOSE d \in Digits : text = T_V(d))

\* the value read from cell i of a row, the default when the row is short
Reading(cells, i, default) ==
    IF HasCell(cells, i) THEN TextValue(cells[i + 1]) ELSE default

\* the module of the row at q in the group opened at p: a 7-cell row has
\* its ac voltage in cell 4, a continuation row in cell 3
MappedModule(rows, p, q) ==
    [id |-> IdParts(rows[q])[2],
     power |-> Reading(rows[q], 1, 0),
     dcvoltage |-> Reading(rows[q], 2, 0),
     gridvoltage |-> Reading(rows[q], IF q = p THEN 4 ELSE 3, 0)]

\* the inverter of the group the 7-cell row at p opens
MappedInverter(rows, p) ==
    LET group == Ascending({p} \cup Continuations(rows, p, Len(rows)))
        kept == SelectSeq(group, LAMBDA q : Composite(rows[q]))
    IN  [id |-> IdParts(rows[p])[1],
         freq |-> Reading(rows[p], 3, [m |-> 0, e |-> 0]),
         temperature |-> Reading(rows[p], 5, 0),
         reportingtime |-> Reading(rows[p], 6, ZeroTime),
         solarmodules |-> [k \in 1..Len(kept) |-> MappedModule(rows, p, kept[k])]]

\* C12 as stated: the cells map as below and, in both row shapes, cell 0
\* splits at "-" into the id of the inverter the row's module belongs to
\* and the id of that module.
C12_BothShapesNameInverter ==
    Returned =>
        \A i \in 1..NumSevens :
            LET p == NthSeven(rtRows, i)
            IN  /\ i <= Len(co.result.inverters)
                /\ co.result.inverters[i] = MappedInverter(rtRows, p)
                /\ \A q \in {p} \cup Continuations(rtRows, p, Len(rtRows)) :
                       /\ Len(IdParts(rtRows[q])) >= 2
                       /\ IdParts(rtRows[q])[1] = co.result.inverters[i].id

\* C12 amended: a 7-cell row gives its module power, dc voltage and ac
\* voltage from cells 1, 2 and 4 and its inverter frequency, temperature
\* and report timestamp from cells 3, 5 and 6, and the inverter id is the
\* first "-"-separated part of cell 0; a continuation row gives its module
\* power, dc voltage and ac voltage from cells 1, 2 and 3 and the module
\* joins the open inverter whatever the first part of cell 0 is; in both
\* shapes the module id is the second part of cell 0 and a row whose cell 0
\* has no "-" yields no module.
C12_ColumnMapping ==
    Returned =>
        \A i \in 1..NumSevens :
            /\ i <= Len(co.result.inverters)
            /\ co.result.inverters[i] =
                   MappedInverter(rtRows, NthSeven(rtRows, i))

\* a snapshot was returned in which a continuation row named A-2 put its
\* module, read from cells 1, 2 and 3, into the inverter B opened by a
\* 7-cell row read from cells 1 to 6
C12_Witness ==
    /\ Returned
    /\ Len(rtRows) >= 2
    /\ rtRows[1] = Row7(<<"B", "-", "1">>, "2")
    /\ rtRows[2] = Row4(<<"A", "-", "2">>, "4")
    /\ co.result.inverters[1].id = <<"B">>
    /\ co.result.inverters[1].freq = [m |-> 501, e |-> 1]
    /\ co.result.inverters[1].temperature = 25
    /\ co.result.inverters[1].solarmodules[1] =
           [id |-> <<"1">>, power |-> 120, dcvoltage |-> 32, gridvoltage |-> 39]
    /\ co.result.inverters[1].solarmodules[2] =
           [id |-> <<"2">>, power |-> 140, dcvoltage |-> 34, gridvoltage |-> 38]

\* ----------------------------------------------------------------- C13
\* the modules the group opened at row p holds once the rows up to n are
\* processed
GroupTagsUpTo(rows, p, n) ==
    LET group == Ascending({p} \cup Continuations(rows, p, n))
        kept == SelectSeq(group, LAMBDA q : Composite(rows[q]))
    IN  [k \in 1..Len(kept) |-> RowTag(rows[kept[k]])]

\* the 7-cell row that opened the inverter open after n rows
OpenedAt(rows, n) ==
    CHOOSE p \in Sevens(rows, n) : \A q \in Sevens(rows, n) : q <= p

\* while the loop runs the open inverter holds the modules of the composite
\* rows of its group so far: a continuation row without "-" changes nothing
\* and the loop goes on; a fetch whose pages were read returns a snapshot
OpenGroupKept ==
    /\ (co.pc = "rows" /\ co.currInverter # None) =>
           ModuleTags(co.currInverter) =
               GroupTagsUpTo(rtRows, OpenedAt(rtRows, co.idx - 1), co.idx - 1)
    /\ (co.pc = "returned" /\ ~SummaryFailed /\ ~RealtimeFailed) =>
           co.result # None

\* no row of the group opened at p has a "-" in its identity cell
NoComposite(rows, p) ==
    \A q \in {p} \cup Continuations(rows, p, Len(rows)) : ~Composite(rows[q])

\* C13 as stated: every inverter of a returned snapshot has at least one
\* module, also for identity cells without "-", and a continuation row
\* without "-" leaves the open inverter's modules unchanged without
\* aborting the fetch.
C13_EveryInverterHasModule ==
    /\ OpenGroupKept
    /\ Returned =>
           \A i \in 1..Len(co.result.inverters) :
               Len(co.result.inverters[i].solarmodules) >= 1

\* C13 amended: an inverter of a returned snapshot has an empty module list
\* exactly when no row of its group (the 7-cell row that opened it and its
\* continuation rows) has a "-" in its identity cell, and at least one
\* module otherwise; a 7-cell row without "-" does open and later flush an
\* inverter without modules; a continuation row without "-" leaves the open
\* inverter's modules unchanged without aborting the fetch.
C13_EmptyOnlyWithoutDash ==
    /\ OpenGroupKept
    /\ Returned =>
           \A i \in 1..NumSevens :
               /\ i <= Len(co.result.inverters)
               /\ co.result.inverters[i].solarmodules = <<>>
                      <=> NoComposite(rtRows, NthSeven(rtRows, i))

\* a snapshot was returned for the rows C (7 cells), A-1 (7 cells) and D
\* (4 cells): the first inverter has no module, the second kept its one
\* module over the continuation row without "-"
C13_Witness ==
    /\ Returned
    /\ rtRows = <<Row7(<<"C">>, "3"), Row7(<<"A", "-", "1">>, "1"),
                  Row4(<<"D">>, "5")>>
    /\ Len(co.result.inverters) = 2
    /\ co.result.inverters[1].solarmodules = <<>>
    /\ Len(co.result.inverters[2].solarmodules) = 1

\* ----------------------------------------------------------------- C14
\* C14: once the sensors are set up from a snapshot, every later publish
\* finds each sensor's inverter or module, by the id the sensor stored, in
\* the new coordinator data, and no _handle_coordinator_update raises.
C14_HandlersResolve == handled # "error"

====
